---- MODULE Spec2Model ----
(***************************************************************************)
(* Lifecycle supervision of the LiquidJava VS Code extension               *)
(* (client/src/extension.ts): activate, runLanguageServer, runClient,      *)
(* stopExtension, handleDiagnostics and the callbacks they register.       *)
(*                                                                         *)
(* JavaScript runs one callback at a time.  An action below is one         *)
(* uninterrupted run of code: from the start of a handler (or from the     *)
(* resumption after an await) to the next await or the return.  Code that  *)
(* the event loop runs before any new event is delivered (an event         *)
(* listener fired synchronously, the continuation of an await on a promise *)
(* that is already settled) has priority over the delivery of events:      *)
(* see SyncPending and MicrotaskReady.                                     *)
(***************************************************************************)
EXTENDS Integers, Sequences, FiniteSets, TLC

VARIABLES
    debugMode,          \* DEBUG_MODE of ./constants
    pc,                 \* position of activate()
    client,             \* let client: LanguageClient
    socket,             \* let socket: net.Socket
    serverProcess,      \* let serverProcess: ChildProcess
    status,             \* the state last given to updateStatusBar
    errorDiagnostic,    \* let errorDiagnostic
    webviewLast,        \* the error of the last message given to webviewProvider.sendMessage
    clientState,        \* state of the LanguageClient object
    startResult,        \* the promise of client.start()
    conn,               \* the connectToPort(port) attempt and the socket object it yields
    proc,               \* the spawned engine process
    stateChangePending, \* onDidChangeState(newState = Stopped) is being fired
    disposeStep,        \* disposal of context.subscriptions: 0 not begun, 1 client disposed, 2 done
    deactivated,        \* deactivate() was called
    saveRegistered,     \* the onDidSaveTextDocument listener is registered
    sp,                 \* position of each stopExtension invocation, by caller
    stopAfterSuspend,   \* deactivate or dispose arrived while activate was suspended at an await
    closedRunning,      \* the close event of the process fired while the session was Running
    closedStarting,     \* the close event fired while serverProcess was set, before Running
    exitCode,           \* the code the close event of the process carried
    exitLogged,         \* the code logged by the close listener
    routed,             \* the arguments of the last handleDiagnostics call
    rounds,             \* handleDiagnostics calls so far, saturating at MaxRounds
    prevError,          \* errorDiagnostic as the last handleDiagnostics call found it
    port,               \* the port runLanguageServer resolved to
    connPort,           \* the port given to connectToPort
    nPort,              \* calls of getAvailablePort
    nSpawn,             \* calls of child_process.spawn
    nConnect,           \* calls of connectToPort
    nClientStart,       \* calls of client.start
    nUserMsg,           \* showWarningMessage / showErrorMessage calls
    nStoppingLog,       \* "Stopping LiquidJava extension: ..." log lines
    nStatusStopped,     \* updateStatusBar("stopped") calls made by stopExtension
    nAlready,           \* "Extension already stopped" log lines
    nClientStop,        \* client.stop() calls made by stopExtension
    nSocketDestroy,     \* socket.destroy() calls
    nKillCalls,         \* killProcess(...) calls
    nKill               \* killProcess calls that were given a process

refs == <<client, socket, serverProcess>>
ui == <<status, errorDiagnostic, webviewLast>>
lib == <<clientState, startResult, conn, proc, stateChangePending>>
host == <<disposeStep, deactivated, saveRegistered>>
startCounters == <<nPort, nSpawn, nConnect, nClientStart, nUserMsg>>
stopCounters == <<nStoppingLog, nStatusStopped, nAlready, nClientStop, nSocketDestroy, nKillCalls, nKill>>
observers == <<stopAfterSuspend, closedRunning, closedStarting, exitCode, exitLogged, routed, rounds, prevError>>
ports == <<port, connPort>>
vars == <<debugMode, pc, refs, ui, lib, host, sp, startCounters, stopCounters, observers, ports>>

(***************************************************************************)
(* Bounds and value sets                                                   *)
(***************************************************************************)
MaxDiags == 3
MaxRounds == 2
MaxMainDiags == 1

\* undefined / null, and a live object whose fields do not matter
Null == [null |-> TRUE]
Obj == [object |-> TRUE]
NoCode == 0 - 1
ExitCodes == {0, 1}
Docs == {"A.java", "B.java"}
Severities == {"Error", "Warning"}
Sources == {"liquidjava", "other"}
Messages == {"m1", "m2"}
Diagnostics == [severity : Severities, source : Sources, message : Messages]
Callers == {"deactivate", "dispose", "stateChange", "connectFail", "initFail"}

RECURSIVE SeqsUpTo(_, _)
SeqsUpTo(S, n) ==
    IF n = 0 THEN {<<>>}
    ELSE LET shorter == SeqsUpTo(S, n - 1)
         IN shorter \cup {Append(s, x) : s \in {t \in shorter : Len(t) = n - 1}, x \in S}

DiagSets == SeqsUpTo(Diagnostics, MaxDiags)
MainDiagSets == SeqsUpTo({d \in Diagnostics : d.message = "m1"}, MaxMainDiags)

(***************************************************************************)
(* handleDiagnostics                                                       *)
(***************************************************************************)
\* A plausible slip: the source of the diagnostic is not looked at
IsEngineErrorAnySource(d) == d.severity = "Error"

\* The predicate given to diagnostics.find
IsEngineError(d) == d.severity = "Error" /\ d.source = "liquidjava"

\* Array.prototype.find: the first element satisfying the predicate, or Null
RECURSIVE Find(_)
Find(ds) ==
    IF ds = <<>> THEN Null
    ELSE IF IsEngineError(Head(ds)) THEN Head(ds)
    ELSE Find(Tail(ds))

\* The RefinementError object built from the diagnostic found
RefinementError(uri, d) ==
    [message |-> d.message, severity |-> d.severity, file |-> uri]

\* A plausible slip: the active diagnostic is kept when nothing is found
HandleDiagnosticsKeep(uri, ds) ==
    LET diagnostic == Find(ds)
    IN IF diagnostic = Null
       THEN /\ webviewLast' = Null
            /\ status' = "passed"
            /\ UNCHANGED errorDiagnostic
       ELSE /\ webviewLast' = RefinementError(uri, diagnostic)
            /\ status' = "failed"
            /\ errorDiagnostic' = RefinementError(uri, diagnostic)

\* A plausible slip: the error found is shown but not stored
HandleDiagnosticsNoStore(uri, ds) ==
    LET diagnostic == Find(ds)
    IN IF diagnostic = Null
       THEN /\ webviewLast' = Null
            /\ status' = "passed"
            /\ errorDiagnostic' = Null
       ELSE /\ webviewLast' = RefinementError(uri, diagnostic)
            /\ status' = "failed"
            /\ UNCHANGED errorDiagnostic

\* A plausible slip: a set without engine error clears the active diagnostic
\* only when it belongs to the same document
HandleDiagnosticsPerDocument(uri, ds) ==
    LET diagnostic == Find(ds)
        kept == errorDiagnostic # Null /\ errorDiagnostic.file # uri
    IN IF diagnostic = Null
       THEN /\ webviewLast' = IF kept THEN errorDiagnostic ELSE Null
            /\ status' = IF kept THEN "failed" ELSE "passed"
            /\ errorDiagnostic' = IF kept THEN errorDiagnostic ELSE Null
       ELSE /\ webviewLast' = RefinementError(uri, diagnostic)
            /\ status' = "failed"
            /\ errorDiagnostic' = RefinementError(uri, diagnostic)

HandleDiagnostics(uri, ds) ==
    LET diagnostic == Find(ds)
    IN IF diagnostic = Null
       THEN /\ webviewLast' = Null
            /\ status' = "passed"
            /\ errorDiagnostic' = Null
       ELSE /\ webviewLast' = RefinementError(uri, diagnostic)
            /\ status' = "failed"
            /\ errorDiagnostic' = RefinementError(uri, diagnostic)

(***************************************************************************)
(* Scheduling                                                              *)
(***************************************************************************)
Finished == {"done", "noop"}

\* Code that runs inside the current callback, before it returns
SyncPending == stateChangePending \/ disposeStep = 1

\* killProcess (./utils) signals the process and returns without waiting for
\* its exit: the promise it returns is settled when stopExtension awaits it
KillProcessWaits == FALSE

\* killProcess (./utils) may fail on a process it was given: the promise it
\* returns is then rejected
KillProcessMayFail == TRUE

\* Continuations of awaits on promises that are already settled.  The order in
\* which ready continuations run is left open.
MicrotaskReady ==
    \/ \E c \in Callers : sp[c] = "settled"
    \/ \E c \in Callers : sp[c] \in {"kill", "killFail"} /\ ~KillProcessWaits
    \/ pc = "serverUp"
    \/ pc = "starting" /\ startResult # "pending"
    \/ pc = "initStop" /\ sp["initFail"] \in Finished \cup {"threw"}
    \/ conn = "failed" /\ sp["connectFail"] \in Finished /\ startResult = "pending"

\* The session is Running and no stopExtension invocation has begun a teardown
LifecycleRunning ==
    clientState = "running" /\ \A c \in Callers : sp[c] \in {"idle", "noop"}

\* An event of the host, the engine or the library can be delivered
EventTurn == ~SyncPending /\ ~MicrotaskReady

\* A continuation can run
MicrotaskTurn == ~SyncPending

(***************************************************************************)
(* The LanguageClient object (vscode-languageclient), as the extension     *)
(* sees it: its state, and what stop() does in each state                  *)
(***************************************************************************)
\* The state of the client after a call of its stop()
StopCall(cs) == IF cs = "running" THEN "stopping" ELSE cs

\* stop() takes the client from Running to Stopped in the eyes of onDidChangeState
StopCallFires(cs) == cs = "running"

\* The promise stop() returns is pending while the shutdown is in progress;
\* otherwise it is already settled (resolved when stopped, rejected when starting)
StopCallAwait(cs) == IF cs \in {"running", "stopping"} THEN "pending" ELSE "settled"

(***************************************************************************)
(* Initial state: the module is loaded, activate has not been called       *)
(***************************************************************************)
InitCommon ==
    /\ stateChangePending = FALSE
    /\ disposeStep = 0 /\ deactivated = FALSE
    /\ sp = [c \in Callers |-> "idle"]
    /\ stopAfterSuspend = FALSE /\ closedRunning = FALSE /\ closedStarting = FALSE
    /\ exitCode = NoCode /\ exitLogged = NoCode
    /\ nUserMsg = 0
    /\ nStoppingLog = 0 /\ nStatusStopped = 0 /\ nAlready = 0 /\ nClientStop = 0
    /\ nSocketDestroy = 0 /\ nKillCalls = 0 /\ nKill = 0

Init ==
    /\ InitCommon
    /\ debugMode \in BOOLEAN
    /\ pc = "idle"
    /\ client = Null /\ socket = Null /\ serverProcess = Null
    /\ status = "none"
    /\ errorDiagnostic = Null /\ webviewLast = Null
    /\ clientState = "none" /\ startResult = "none" /\ conn = "none" /\ proc = "none"
    /\ saveRegistered = FALSE
    /\ routed = <<>> /\ rounds = 0 /\ prevError = Null
    /\ nPort = 0 /\ nSpawn = 0 /\ nConnect = 0 /\ nClientStart = 0
    /\ port = "none" /\ connPort = "none"

(***************************************************************************)
(* stopExtension                                                           *)
(***************************************************************************)
\* A plausible slip: a negation is missing
AlreadyStoppedMissingNot == client = Null /\ serverProcess = Null /\ socket # Null

\* if (!client && !serverProcess && !socket)
AlreadyStopped == client = Null /\ serverProcess = Null /\ socket = Null

\* stopExtension from its call to its first await (or its early return), for
\* caller c; pend is what stateChangePending is apart from this call.
\* Sets sp, status, clientState, stateChangePending and four counters.
StopBegin(c, pend) ==
    IF AlreadyStopped
    THEN /\ sp' = [sp EXCEPT ![c] = "noop"]
         /\ nAlready' = nAlready + 1
         /\ stateChangePending' = pend
         /\ UNCHANGED <<status, clientState, nStoppingLog, nStatusStopped, nClientStop>>
    ELSE /\ nStoppingLog' = nStoppingLog + 1
         /\ status' = "stopped"
         /\ nStatusStopped' = nStatusStopped + 1
         /\ UNCHANGED nAlready
         /\ IF client # Null
            THEN /\ nClientStop' = nClientStop + 1
                 /\ clientState' = StopCall(clientState)
                 /\ stateChangePending' = (pend \/ StopCallFires(clientState))
                 /\ sp' = [sp EXCEPT ![c] = StopCallAwait(clientState)]
            ELSE /\ sp' = [sp EXCEPT ![c] = "settled"]
                 /\ stateChangePending' = pend
                 /\ UNCHANGED <<nClientStop, clientState>>

\* A plausible slip: the socket is destroyed before client.stop() is awaited
StopBeginFrameDestroysSocket ==
    /\ socket' = Null
    /\ nSocketDestroy' = nSocketDestroy + 1
    /\ UNCHANGED <<client, serverProcess, errorDiagnostic, webviewLast, nKillCalls, nKill>>

\* What StopBegin leaves alone, apart from the caller's own variables
StopBeginFrame ==
    UNCHANGED <<refs, errorDiagnostic, webviewLast, nSocketDestroy, nKillCalls, nKill>>

\* After await client?.stop() (resolved, or rejected and logged): clear client;
\* socket?.destroy(), which may throw (caught and logged); clear socket; call
\* killProcess(serverProcess), whose promise is then awaited outside any try
StopAfterClient(c, destroyThrows, killFails) ==
    /\ MicrotaskTurn
    /\ sp[c] = "settled"
    /\ destroyThrows => socket # Null
    /\ killFails => KillProcessMayFail /\ serverProcess # Null
    /\ client' = Null
    /\ IF socket # Null
       THEN /\ nSocketDestroy' = nSocketDestroy + 1
            /\ conn' = IF destroyThrows THEN conn ELSE "destroyed"
       ELSE UNCHANGED <<nSocketDestroy, conn>>
    /\ socket' = Null
    /\ nKillCalls' = nKillCalls + 1
    /\ nKill' = IF serverProcess # Null THEN nKill + 1 ELSE nKill
    /\ sp' = [sp EXCEPT ![c] = IF killFails THEN "killFail" ELSE "kill"]
    /\ UNCHANGED <<debugMode, pc, serverProcess, ui, clientState, startResult, proc,
                   stateChangePending, host, startCounters, nStoppingLog, nStatusStopped,
                   nAlready, nClientStop, observers, ports>>

\* After await killProcess(serverProcess) resolved: clear serverProcess
StopAfterKill(c) ==
    /\ IF KillProcessWaits THEN EventTurn ELSE MicrotaskTurn
    /\ sp[c] = "kill"
    /\ serverProcess' = Null
    /\ sp' = [sp EXCEPT ![c] = "done"]
    /\ UNCHANGED <<debugMode, pc, client, socket, ui, lib, host, startCounters,
                   stopCounters, observers, ports>>

\* await killProcess(serverProcess) rejected: the error leaves stopExtension,
\* the assignment serverProcess = undefined is not reached
StopKillThrew(c) ==
    /\ IF KillProcessWaits THEN EventTurn ELSE MicrotaskTurn
    /\ sp[c] = "killFail"
    /\ sp' = [sp EXCEPT ![c] = "threw"]
    /\ UNCHANGED <<debugMode, pc, refs, ui, lib, host, startCounters, stopCounters,
                   observers, ports>>

(***************************************************************************)
(* activate, runLanguageServer, runClient                                  *)
(***************************************************************************)
\* The awaits of activate after which a startup step follows
Suspended == {"overlay", "jar", "port", "starting"}

\* A plausible slip: initStatusBar does not show "loading"
ActivateBeginNoStatus ==
    /\ pc = "idle"
    /\ pc' = "overlay"
    /\ UNCHANGED <<debugMode, refs, ui, lib, host, sp, startCounters, stopCounters, observers, ports>>

\* activate up to await applyItalicOverlay(); initStatusBar shows "loading"
ActivateBegin ==
    /\ pc = "idle"
    /\ pc' = "overlay"
    /\ status' = "loading"
    /\ UNCHANGED <<debugMode, refs, errorDiagnostic, webviewLast, lib, host, sp,
                   startCounters, stopCounters, observers, ports>>

\* applyItalicOverlay() settled; activate calls isJarPresent() and awaits it
ActivateOverlayDone ==
    /\ EventTurn
    /\ pc = "overlay"
    /\ pc' = "jar"
    /\ UNCHANGED <<debugMode, refs, ui, lib, host, sp, startCounters, stopCounters, observers, ports>>

\* A plausible slip: the status is left as it is when a prerequisite is missing
ActivatePrerequisitesNoStatus(jarIsPresent, javaFound) ==
    /\ EventTurn
    /\ pc = "jar"
    /\ IF ~jarIsPresent \/ ~javaFound
       THEN /\ nUserMsg' = nUserMsg + 1
            /\ pc' = "aborted"
            /\ UNCHANGED <<status, nPort, port>>
       ELSE /\ pc' = IF debugMode THEN "serverUp" ELSE "port"
            /\ nPort' = IF debugMode THEN nPort ELSE nPort + 1
            /\ port' = IF debugMode THEN "DEBUG_PORT" ELSE port
            /\ UNCHANGED <<status, nUserMsg>>
    /\ UNCHANGED <<debugMode, refs, errorDiagnostic, webviewLast, lib, host, sp, nSpawn,
                   nConnect, nClientStart, stopCounters, observers, connPort>>

\* A plausible slip: runLanguageServer does not look at DEBUG_MODE
ActivatePrerequisitesNoDebug(jarIsPresent, javaFound) ==
    /\ EventTurn
    /\ pc = "jar"
    /\ IF ~jarIsPresent \/ ~javaFound
       THEN /\ nUserMsg' = nUserMsg + 1
            /\ status' = "stopped"
            /\ pc' = "aborted"
            /\ UNCHANGED nPort
       ELSE /\ pc' = "port"
            /\ nPort' = nPort + 1
            /\ UNCHANGED <<status, nUserMsg>>
    /\ UNCHANGED <<debugMode, refs, errorDiagnostic, webviewLast, lib, host, sp, nSpawn,
                   nConnect, nClientStart, stopCounters, observers, ports>>

\* isJarPresent() settled with jarIsPresent; findJavaExecutable("java") finds a
\* runtime or not; with both, runLanguageServer runs up to its first await
\* (getAvailablePort(), none when DEBUG_MODE)
ActivatePrerequisites(jarIsPresent, javaFound) ==
    /\ EventTurn
    /\ pc = "jar"
    /\ IF ~jarIsPresent \/ ~javaFound
       THEN /\ nUserMsg' = nUserMsg + 1
            /\ status' = "stopped"
            /\ pc' = "aborted"
            /\ UNCHANGED <<nPort, port>>
       ELSE /\ pc' = IF debugMode THEN "serverUp" ELSE "port"
            /\ nPort' = IF debugMode THEN nPort ELSE nPort + 1
            /\ port' = IF debugMode THEN "DEBUG_PORT" ELSE port
            /\ UNCHANGED <<status, nUserMsg>>
    /\ UNCHANGED <<debugMode, refs, errorDiagnostic, webviewLast, lib, host, sp, nSpawn,
                   nConnect, nClientStart, stopCounters, observers, connPort>>

\* getAvailablePort() resolved: spawn the engine, register its listeners, return
\* the port.  spawn returns a ChildProcess also when the executable cannot be
\* started (spawned = FALSE): the failure arrives as an "error" event.
RunLanguageServerSpawn(spawned) ==
    /\ EventTurn
    /\ pc = "port"
    /\ serverProcess' = Obj
    /\ nSpawn' = nSpawn + 1
    /\ proc' = IF spawned THEN "alive" ELSE "failed"
    /\ port' = "available"
    /\ pc' = "serverUp"
    /\ UNCHANGED <<debugMode, client, socket, ui, clientState, startResult, conn,
                   stateChangePending, host, sp, nPort, nConnect, nClientStart, nUserMsg,
                   stopCounters, observers, connPort>>

\* getAvailablePort() rejected: runLanguageServer and activate reject
PortFail ==
    /\ EventTurn
    /\ pc = "port"
    /\ pc' = "rejected"
    /\ UNCHANGED <<debugMode, refs, ui, lib, host, sp, startCounters, stopCounters, observers, ports>>

\* runClient up to await client.start(): the client is created, its listeners
\* and the dispose subscription are registered, start() asks serverOptions for
\* the connection, which calls connectToPort(port)
RunClient ==
    /\ MicrotaskTurn
    /\ pc = "serverUp"
    /\ client' = Obj
    /\ clientState' = "starting"
    /\ startResult' = "pending"
    /\ conn' = "pending"
    /\ nConnect' = nConnect + 1
    /\ nClientStart' = nClientStart + 1
    /\ connPort' = port
    /\ pc' = "starting"
    /\ UNCHANGED <<debugMode, socket, serverProcess, ui, proc, stateChangePending, host,
                   sp, nPort, nSpawn, nUserMsg, stopCounters, observers, port>>

\* serverOptions: socket = await connectToPort(port) resolved
ConnectOk ==
    /\ EventTurn
    /\ conn = "pending"
    /\ debugMode \/ proc = "alive"
    /\ socket' = Obj
    /\ conn' = "open"
    /\ UNCHANGED <<debugMode, pc, client, serverProcess, ui, clientState, startResult,
                   proc, stateChangePending, host, sp, startCounters, stopCounters, observers, ports>>

\* serverOptions: connectToPort(port) rejected; the catch block calls stopExtension
ConnectFail ==
    /\ EventTurn
    /\ conn = "pending"
    /\ conn' = "failed"
    /\ StopBegin("connectFail", stateChangePending)
    /\ StopBeginFrame
    /\ UNCHANGED <<debugMode, pc, startResult, proc, host, startCounters, observers, ports>>

\* serverOptions: after await stopExtension(...), reject(error): client.start() fails
ConnectReject ==
    /\ MicrotaskTurn
    /\ conn = "failed"
    /\ sp["connectFail"] \in Finished
    /\ startResult = "pending"
    /\ startResult' = "rejected"
    /\ clientState' = IF clientState = "starting" THEN "stopped" ELSE clientState
    /\ stateChangePending' = (clientState = "starting")
    /\ UNCHANGED <<debugMode, pc, refs, ui, conn, proc, host, sp, startCounters,
                   stopCounters, observers, ports>>

\* The handshake over the open connection succeeded: the client is Running and
\* client.start() resolves
HandshakeOk ==
    /\ EventTurn
    /\ clientState = "starting"
    /\ conn = "open"
    /\ debugMode \/ (proc = "alive" /\ nKill = 0)
    /\ clientState' = "running"
    /\ startResult' = "resolved"
    /\ UNCHANGED <<debugMode, pc, refs, ui, conn, proc, stateChangePending, host, sp,
                   startCounters, stopCounters, observers, ports>>

\* The handshake failed, or the connection closed during it: the client is
\* Stopped and client.start() rejects
HandshakeFail ==
    /\ EventTurn
    /\ clientState = "starting"
    /\ conn \in {"open", "destroyed"}
    /\ clientState' = "stopped"
    /\ startResult' = "rejected"
    /\ stateChangePending' = TRUE
    /\ UNCHANGED <<debugMode, pc, refs, ui, conn, proc, host, sp, startCounters,
                   stopCounters, observers, ports>>

\* runClient after await client.start() resolved: register the save listener
ActivateReady ==
    /\ MicrotaskTurn
    /\ pc = "starting"
    /\ startResult = "resolved"
    /\ saveRegistered' = TRUE
    /\ pc' = "done"
    /\ UNCHANGED <<debugMode, refs, ui, lib, disposeStep, deactivated, sp, startCounters,
                   stopCounters, observers, ports>>

\* runClient's catch: show the error, call stopExtension("Failed to initialize")
ActivateStartFailed ==
    /\ MicrotaskTurn
    /\ pc = "starting"
    /\ startResult = "rejected"
    /\ nUserMsg' = nUserMsg + 1
    /\ StopBegin("initFail", stateChangePending)
    /\ StopBeginFrame
    /\ pc' = "initStop"
    /\ UNCHANGED <<debugMode, startResult, conn, proc, host, nPort, nSpawn, nConnect,
                   nClientStart, observers, ports>>

\* runClient after the catch's await stopExtension(...): register the save listener
ActivateAfterStop ==
    /\ MicrotaskTurn
    /\ pc = "initStop"
    /\ sp["initFail"] \in Finished
    /\ saveRegistered' = TRUE
    /\ pc' = "done"
    /\ UNCHANGED <<debugMode, refs, ui, lib, disposeStep, deactivated, sp, startCounters,
                   stopCounters, observers, ports>>

\* The catch's await stopExtension(...) rejected: runClient and activate reject
ActivateStopThrew ==
    /\ MicrotaskTurn
    /\ pc = "initStop"
    /\ sp["initFail"] = "threw"
    /\ pc' = "rejected"
    /\ UNCHANGED <<debugMode, refs, ui, lib, host, sp, startCounters, stopCounters, observers, ports>>

(***************************************************************************)
(* Listeners and events                                                    *)
(***************************************************************************)
\* client.onDidChangeState listener, newState = Stopped: stopExtension("Extension stopped")
ClientStateStopped ==
    /\ stateChangePending
    /\ StopBegin("stateChange", FALSE)
    /\ StopBeginFrame
    /\ UNCHANGED <<debugMode, pc, startResult, conn, proc, host, startCounters, observers, ports>>

\* The shutdown started by client.stop() ends: every promise returned by stop() settles
ClientStopDone ==
    /\ EventTurn
    /\ clientState = "stopping"
    /\ clientState' = "stopped"
    /\ sp' = [c \in Callers |-> IF sp[c] = "pending" THEN "settled" ELSE sp[c]]
    /\ UNCHANGED <<debugMode, pc, refs, ui, startResult, conn, proc, stateChangePending,
                   host, startCounters, stopCounters, observers, ports>>

\* The running session ends on its own (the connection closed): state Stopped
ConnectionLost ==
    /\ EventTurn
    /\ clientState = "running"
    /\ clientState' = "stopped"
    /\ stateChangePending' = TRUE
    /\ UNCHANGED <<debugMode, pc, refs, ui, startResult, conn, proc, host, sp,
                   startCounters, stopCounters, observers, ports>>

\* serverProcess.on("error"): the failure is logged
ProcError ==
    /\ EventTurn
    /\ proc = "failed"
    /\ proc' = "errored"
    /\ UNCHANGED <<debugMode, pc, refs, ui, clientState, startResult, conn,
                   stateChangePending, host, sp, startCounters, stopCounters, observers, ports>>

\* serverProcess.on("close"): log the exit code, client?.stop()
ProcClose(code) ==
    /\ EventTurn
    /\ proc \in {"alive", "errored"}
    /\ proc' = "closed"
    /\ exitCode' = code
    /\ exitLogged' = code
    /\ closedRunning' = (closedRunning \/ LifecycleRunning)
    /\ closedStarting' = (closedStarting \/ (serverProcess # Null /\ clientState \in {"none", "starting"}))
    /\ IF client # Null
       THEN /\ clientState' = StopCall(clientState)
            /\ stateChangePending' = StopCallFires(clientState)
       ELSE UNCHANGED <<clientState, stateChangePending>>
    /\ UNCHANGED <<debugMode, pc, refs, ui, startResult, conn, host, sp, startCounters,
                   stopCounters, stopAfterSuspend, routed, rounds, prevError, ports>>

\* deactivate(): stopExtension("Extension was deactivated")
Deactivate ==
    /\ EventTurn
    /\ pc # "idle"
    /\ ~deactivated
    /\ deactivated' = TRUE
    /\ stopAfterSuspend' = (stopAfterSuspend \/ pc \in Suspended)
    /\ StopBegin("deactivate", stateChangePending)
    /\ StopBeginFrame
    /\ UNCHANGED <<debugMode, pc, startResult, conn, proc, disposeStep, saveRegistered,
                   startCounters, closedRunning, closedStarting, exitCode,
                   exitLogged, routed, rounds, prevError, ports>>

\* context.subscriptions are disposed: first the client (its dispose stops it)
DisposeClient ==
    /\ EventTurn
    /\ disposeStep = 0
    /\ nClientStart > 0
    /\ disposeStep' = 1
    /\ clientState' = StopCall(clientState)
    /\ stateChangePending' = StopCallFires(clientState)
    /\ UNCHANGED <<debugMode, pc, refs, ui, startResult, conn, proc, deactivated,
                   saveRegistered, sp, startCounters, stopCounters, observers, ports>>

\* ... then the subscription { dispose: () => stopExtension("Extension was disposed") }
DisposeStop ==
    /\ disposeStep = 1
    /\ ~stateChangePending
    /\ disposeStep' = 2
    /\ stopAfterSuspend' = (stopAfterSuspend \/ pc \in Suspended)
    /\ StopBegin("dispose", FALSE)
    /\ StopBeginFrame
    /\ UNCHANGED <<debugMode, pc, startResult, conn, proc, deactivated, saveRegistered,
                   startCounters, closedRunning, closedStarting, exitCode,
                   exitLogged, routed, rounds, prevError, ports>>

\* A plausible slip: the save listener does not look at client
SaveAlways ==
    /\ EventTurn
    /\ saveRegistered
    /\ disposeStep = 0
    /\ status' = "loading"
    /\ UNCHANGED <<debugMode, pc, refs, errorDiagnostic, webviewLast, lib, host, sp,
                   startCounters, stopCounters, observers, ports>>

\* onDidSaveTextDocument listener: if (client) updateStatusBar("loading")
Save ==
    /\ EventTurn
    /\ saveRegistered
    /\ disposeStep = 0
    /\ status' = IF client # Null THEN "loading" ELSE status
    /\ UNCHANGED <<debugMode, pc, refs, errorDiagnostic, webviewLast, lib, host, sp,
                   startCounters, stopCounters, observers, ports>>

\* webviewProvider.onDidReceiveMessage listener, message.type = "ready"
WebviewReady ==
    /\ EventTurn
    /\ pc # "idle"
    /\ webviewLast' = IF errorDiagnostic # Null THEN errorDiagnostic ELSE webviewLast
    /\ UNCHANGED <<debugMode, pc, refs, status, errorDiagnostic, lib, host, sp,
                   startCounters, stopCounters, observers, ports>>

\* The middleware's handleDiagnostics(uri, diagnostics) on a diagnostics notification
Route(uri, ds) ==
    /\ EventTurn
    /\ clientState = "running"
    /\ HandleDiagnostics(uri, ds)
    /\ routed' = <<uri, ds>>
    /\ rounds' = IF rounds < MaxRounds THEN rounds + 1 ELSE rounds
    /\ prevError' = errorDiagnostic
    /\ UNCHANGED <<debugMode, pc, refs, lib, host, sp, startCounters, stopCounters,
                   stopAfterSuspend, closedRunning, closedStarting, exitCode,
                   exitLogged, ports>>

(***************************************************************************)
(* Specifications                                                          *)
(***************************************************************************)
Next ==
    \/ ActivateBegin
    \/ ActivateOverlayDone
    \/ \E jarIsPresent \in BOOLEAN, javaFound \in BOOLEAN :
          ActivatePrerequisites(jarIsPresent, javaFound)
    \/ \E spawned \in BOOLEAN : RunLanguageServerSpawn(spawned)
    \/ PortFail
    \/ RunClient
    \/ ConnectOk
    \/ ConnectFail
    \/ ConnectReject
    \/ HandshakeOk
    \/ HandshakeFail
    \/ ActivateReady
    \/ ActivateStartFailed
    \/ ActivateAfterStop
    \/ ActivateStopThrew
    \/ \E c \in Callers, destroyThrows \in BOOLEAN, killFails \in BOOLEAN :
          StopAfterClient(c, destroyThrows, killFails)
    \/ \E c \in Callers : StopAfterKill(c)
    \/ \E c \in Callers : StopKillThrew(c)
    \/ ClientStateStopped
    \/ ClientStopDone
    \/ ConnectionLost
    \/ ProcError
    \/ \E code \in ExitCodes : ProcClose(code)
    \/ Deactivate
    \/ DisposeClient
    \/ DisposeStop
    \/ Save
    \/ WebviewReady
    \/ \E uri \in Docs, ds \in MainDiagSets : Route(uri, ds)

Spec == Init /\ [][Next]_vars

\* What the event loop and the libraries do without any further request: run
\* the listeners being fired and the ready continuations, and settle the
\* operations that were started (prerequisite checks, port, connection,
\* handshake, client shutdown, the error event of a failed spawn)
Progress ==
    \/ ClientStateStopped
    \/ DisposeStop
    \/ \E c \in Callers, destroyThrows \in BOOLEAN, killFails \in BOOLEAN :
          StopAfterClient(c, destroyThrows, killFails)
    \/ \E c \in Callers : StopAfterKill(c)
    \/ \E c \in Callers : StopKillThrew(c)
    \/ RunClient
    \/ ConnectReject
    \/ ActivateReady
    \/ ActivateStartFailed
    \/ ActivateAfterStop
    \/ ActivateStopThrew
    \/ ActivateOverlayDone
    \/ \E jarIsPresent \in BOOLEAN, javaFound \in BOOLEAN :
          ActivatePrerequisites(jarIsPresent, javaFound)
    \/ \E spawned \in BOOLEAN : RunLanguageServerSpawn(spawned)
    \/ PortFail
    \/ ConnectOk
    \/ ConnectFail
    \/ HandshakeOk
    \/ HandshakeFail
    \/ ClientStopDone
    \/ ProcError

\* Spec, with the event loop and the libraries never stalling
FairSpec == Spec /\ WF_vars(Progress)

\* The diagnostic sets of an earlier round: none found, one engine error found
PriorRounds == {<<>>, <<[severity |-> "Error", source |-> "liquidjava", message |-> "m1"]>>}

\* A state of a Running session (no debug override) in which one diagnostics
\* round has been routed for A.java
DiagInit ==
    /\ InitCommon
    /\ debugMode = FALSE
    /\ pc = "done"
    /\ client = Obj /\ socket = Obj /\ serverProcess = Obj
    /\ clientState = "running" /\ startResult = "resolved" /\ conn = "open" /\ proc = "alive"
    /\ saveRegistered = TRUE
    /\ nPort = 1 /\ nSpawn = 1 /\ nConnect = 1 /\ nClientStart = 1
    /\ port = "available" /\ connPort = "available"
    /\ rounds = 1 /\ prevError = Null
    /\ \E ds \in PriorRounds :
          /\ routed = <<"A.java", ds>>
          /\ errorDiagnostic = IF ds = <<>> THEN Null ELSE RefinementError("A.java", ds[1])
          /\ webviewLast = errorDiagnostic
          /\ status = IF ds = <<>> THEN "passed" ELSE "failed"

\* The next diagnostics round of such a session
DiagNext == \E uri \in Docs, ds \in DiagSets : rounds = 1 /\ Route(uri, ds)

\* The diagnostics router alone, on every diagnostic set up to MaxDiags long
DiagSpec == DiagInit /\ [][DiagNext]_vars

(***************************************************************************)
(* Properties                                                              *)
(***************************************************************************)
\* All three references are cleared and no stopExtension invocation is under way
StopComplete ==
    /\ client = Null /\ socket = Null /\ serverProcess = Null
    /\ \A c \in Callers : sp[c] \in {"idle", "done", "noop"}
    /\ \E c \in Callers : sp[c] = "done"

\* C1: whatever the interleaving of stopExtension invocations, client.stop,
\* socket.destroy and killProcess are each issued at most once, and the
\* "Stopping" log line and the status update to Stopped are each emitted at
\* most once.
C1_ExactlyOneTeardown ==
    /\ nClientStop <= 1
    /\ nSocketDestroy <= 1
    /\ nKill <= 1
    /\ nStoppingLog <= 1
    /\ nStatusStopped <= 1

\* C2: once stopExtension has set the status to Stopped, the status is Stopped
\* in every later state.
C2_StoppedStatusSticks == nStatusStopped > 0 => status = "stopped"

\* C3: after the close event of the process fired while the session was
\* Running, the exit code is in the log, the process is killed at most once,
\* and when the stop is complete the status is Stopped.
C3_CloseWhileRunningStops ==
    closedRunning =>
        /\ exitLogged = exitCode
        /\ nKill <= 1
        /\ StopComplete => status = "stopped"

\* C4: a stopExtension invocation that begins after an earlier one has completed,
\* with the three references cleared, returns at once: it issues no client.stop,
\* socket.destroy or killProcess, and leaves the status, the three references
\* and the active diagnostic as they are.
C4_StopAfterStopIsNoop ==
    [][\A c \in Callers :
          ( /\ sp[c] = "idle" /\ sp'[c] # "idle"
            /\ \E d \in Callers : sp[d] = "done"
            /\ client = Null /\ socket = Null /\ serverProcess = Null )
          => /\ sp'[c] = "noop"
             /\ UNCHANGED <<client, socket, serverProcess, status, errorDiagnostic>>
             /\ UNCHANGED <<nStoppingLog, nStatusStopped, nClientStop, nSocketDestroy,
                            nKillCalls, nKill>>]_vars

\* C4 witness: with an engine process, deactivate ran a teardown to its end and
\* the later dispose subscription found everything stopped
C4_Witness ==
    /\ ~debugMode /\ nSpawn = 1
    /\ sp["deactivate"] = "done"
    /\ sp["dispose"] = "noop"
    /\ nStoppingLog = 1 /\ nKill = 1

\* C5: when activate ends because a prerequisite is missing, no port was
\* reserved, no process spawned, no client created, one message was shown to
\* the user, and the status is Stopped.
C5_PrerequisiteMissing ==
    pc = "aborted" =>
        /\ nPort = 0 /\ nSpawn = 0 /\ nConnect = 0 /\ nClientStart = 0
        /\ client = Null /\ socket = Null /\ serverProcess = Null
        /\ nUserMsg = 1
        /\ status = "stopped"

\* C5 witness: activation was abandoned, and deactivate has since been called
C5_Witness == pc = "aborted" /\ deactivated /\ sp["deactivate"] = "noop"

\* C6: the active diagnostic is non-null only while the lifecycle is Running:
\* it is null before the session reaches Running and once a stopExtension
\* invocation has begun a teardown.
C6_DiagnosticOnlyWhileRunning ==
    errorDiagnostic # Null =>
        /\ clientState \notin {"none", "starting"}
        /\ \A c \in Callers : sp[c] \in {"idle", "noop"}

\* The diagnostic set last routed has an engine error at index i and none before
FirstEngineErrorAt(i) ==
    /\ i \in 1..Len(routed[2])
    /\ routed[2][i].severity = "Error" /\ routed[2][i].source = "liquidjava"
    /\ \A j \in 1..(i - 1) :
          ~(routed[2][j].severity = "Error" /\ routed[2][j].source = "liquidjava")

\* C7: after a diagnostic set was routed for a document, if the set has a
\* diagnostic of severity Error from the engine then the active diagnostic is
\* built from the first such diagnostic in the order of the set, with that
\* document as its file, and the status is Failed.
C7_FirstEngineErrorChosen ==
    \A i \in 1..Len(routed[2]) :
        FirstEngineErrorAt(i) =>
            /\ errorDiagnostic # Null
            /\ errorDiagnostic.message = routed[2][i].message
            /\ errorDiagnostic.severity = "Error"
            /\ errorDiagnostic.file = routed[1]
            /\ webviewLast = errorDiagnostic
            /\ status = "failed"

\* C7 witness: two engine errors followed by an error of another source were
\* routed for B.java, and the first was chosen
C7_Witness ==
    /\ Len(routed[2]) = 3
    /\ routed[1] = "B.java"
    /\ routed[2][1] = [severity |-> "Error", source |-> "liquidjava", message |-> "m2"]
    /\ routed[2][2] = [severity |-> "Error", source |-> "liquidjava", message |-> "m1"]
    /\ routed[2][3] = [severity |-> "Error", source |-> "other", message |-> "m1"]
    /\ errorDiagnostic = [message |-> "m2", severity |-> "Error", file |-> "B.java"]

\* C8: after a diagnostic set with no diagnostic of severity Error from the
\* engine was routed (the empty set included), the active diagnostic is null, a
\* null error was sent to the detail view, and the status is Passed.
C8_NoEngineErrorClears ==
    (\A i \in 1..Len(routed[2]) :
        ~(routed[2][i].severity = "Error" /\ routed[2][i].source = "liquidjava"))
    => /\ errorDiagnostic = Null
       /\ webviewLast = Null
       /\ status = "passed"

\* C8 witness: after an earlier round for A.java, a set holding an error of
\* another source and an engine warning was routed for B.java
C8_Witness ==
    /\ rounds = 2
    /\ routed[1] = "B.java"
    /\ Len(routed[2]) = 2
    /\ routed[2][1] = [severity |-> "Error", source |-> "other", message |-> "m1"]
    /\ routed[2][2] = [severity |-> "Warning", source |-> "liquidjava", message |-> "m2"]
    /\ errorDiagnostic = Null

\* Nothing has failed and nobody has asked for a stop
FailureFree ==
    /\ pc \notin {"aborted", "rejected", "initStop"}
    /\ proc \in {"none", "alive"}
    /\ conn \in {"none", "pending", "open"}
    /\ clientState \in {"none", "starting", "running"}
    /\ startResult # "rejected"
    /\ ~deactivated /\ disposeStep = 0
    /\ \A c \in Callers : sp[c] = "idle"

\* C9: on the failure-free startup path the status is Loading and the active
\* diagnostic null from activation until the first diagnostics round; a first
\* round that is empty makes the status Passed and leaves the active diagnostic
\* null, and until the next round the status is never Stopped or Failed.
C9_FailureFreeStartup ==
    [][FailureFree' =>
          /\ (pc' # "idle" /\ rounds' = 0) =>
                (status' = "loading" /\ errorDiagnostic' = Null)
          /\ (rounds = 0 /\ rounds' = 1 /\ routed'[2] = <<>>) =>
                (status' = "passed" /\ errorDiagnostic' = Null)
          /\ (rounds' = 1 /\ routed'[2] = <<>>) =>
                (status' \in {"passed", "loading"} /\ errorDiagnostic' = Null)]_vars

\* C9 witness: the session was started with an engine process, nothing failed,
\* and the first diagnostics round was empty
C9_Witness ==
    /\ FailureFree /\ ~debugMode
    /\ pc = "done" /\ clientState = "running" /\ nSpawn = 1
    /\ rounds = 1 /\ routed[2] = <<>>
    /\ status = "passed"

\* C10: once deactivate or dispose has arrived while activate was suspended at
\* an await, activate spawns no engine process, opens no connection and starts
\* no client.
C10_NoStartupStepAfterStop ==
    [][stopAfterSuspend =>
          /\ nSpawn' = nSpawn
          /\ nConnect' = nConnect
          /\ nClientStart' = nClientStart]_vars

\* C11: within stopExtension an error raised by a teardown step (client.stop,
\* socket.destroy, killProcess) never leaves the invocation, and the step
\* that ends an invocation leaves client, socket and serverProcess all null
C11_TeardownErrorsContained ==
    [][\A c \in Callers :
          sp[c] \notin Finished \cup {"threw"} /\ sp'[c] \in Finished \cup {"threw"}
             => /\ sp'[c] # "threw"
                /\ client' = Null /\ socket' = Null /\ serverProcess' = Null]_vars

\* C12: when spawning the engine fails, startup does not go on to create the
\* client or to attempt the connection, and once the failure has been
\* delivered it has been shown to the user and no process reference is kept
C12_SpawnFailureStopsStartup ==
    proc \in {"failed", "errored"} =>
        /\ nClientStart = 0 /\ nConnect = 0 /\ client = Null
        /\ proc = "errored" => nUserMsg > 0 /\ serverProcess = Null

\* C13: with the debug override, getAvailablePort is never called, no process
\* is spawned, serverProcess is null in every state, and the connection is
\* attempted on the debug port
C13_DebugOverride ==
    debugMode =>
        /\ nPort = 0 /\ nSpawn = 0
        /\ serverProcess = Null /\ proc = "none"
        /\ nConnect > 0 => connPort = "DEBUG_PORT"

\* A Running session under the debug override, connected on the debug port
C13_Witness ==
    /\ debugMode
    /\ clientState = "running" /\ socket # Null
    /\ nConnect = 1 /\ connPort = "DEBUG_PORT"

\* C14 (as stated): the status is a function of the lifecycle state and of the
\* presence of an active diagnostic; the instance the claim gives: a Running
\* session with an active diagnostic shows Failed
C14_StatusIsFunction ==
    LifecycleRunning /\ errorDiagnostic # Null => status = "failed"

\* C14 (amended): in a Running session the status is Loading, or else it is
\* given by the presence of an active diagnostic: Failed with one, Passed
\* without
C14_StatusFunctionOrLoading ==
    LifecycleRunning =>
        IF errorDiagnostic # Null
        THEN status \in {"failed", "loading"}
        ELSE status \in {"passed", "loading"}

\* A Running session with an active diagnostic whose status a save set to Loading
C14_Witness ==
    /\ LifecycleRunning
    /\ saveRegistered /\ rounds > 0
    /\ errorDiagnostic # Null
    /\ status = "loading"

\* C15: once a stop that released a resource has completed (no invocation is
\* in progress and the three references are null), no step makes client,
\* socket or serverProcess non-null again
C15_NoReferenceAfterStop ==
    [][(/\ \E c \in Callers : sp[c] = "done"
        /\ \A c \in Callers : sp[c] \in {"idle", "done", "noop", "threw"}
        /\ client = Null /\ socket = Null /\ serverProcess = Null)
          => client' = Null /\ socket' = Null /\ serverProcess' = Null]_vars

\* C16: a close event of the process that arrives while serverProcess is set
\* and the session is not yet Running leads to a full stop: client, socket and
\* serverProcess all null and status Stopped
C16_CloseBeforeRunningStops ==
    closedStarting ~>
        (client = Null /\ socket = Null /\ serverProcess = Null /\ status = "stopped")

\* C17: when the connection attempt fails (and nothing else requested a stop),
\* the invocation of stopExtension made by the connect-failure handler ends
\* with the teardown done (status Stopped, the three references null), every
\* teardown action is issued at most once, the invocations made afterwards
\* (state change, start-failure handler) are no-ops, and when runClient has
\* returned the failure has been shown to the user exactly once
C17_ConnectFailureStopsOnce ==
    (conn = "failed" /\ sp["deactivate"] = "idle" /\ sp["dispose"] = "idle") =>
        /\ sp["connectFail"] # "threw"
        /\ sp["connectFail"] \in Finished =>
              /\ sp["connectFail"] = "done"
              /\ client = Null /\ socket = Null /\ serverProcess = Null
              /\ status = "stopped"
        /\ sp["stateChange"] \in {"idle", "noop"} /\ sp["initFail"] \in {"idle", "noop"}
        /\ nStoppingLog <= 1 /\ nStatusStopped <= 1 /\ nClientStop <= 1
        /\ nSocketDestroy <= 1 /\ nKillCalls <= 1
        /\ nUserMsg <= 1
        /\ pc = "done" => nUserMsg = 1 /\ sp["initFail"] = "noop"

\* C18: in every reachable state, status Failed implies that errorDiagnostic
\* is non-null and status Passed implies that it is null
C18_StatusAgreesWithDiagnostic ==
    /\ status = "failed" => errorDiagnostic # Null
    /\ status = "passed" => errorDiagnostic = Null

\* Failed with a diagnostic stored, after a round that had left none
C18_Witness ==
    /\ rounds = 2 /\ prevError = Null
    /\ status = "failed" /\ errorDiagnostic # Null

\* Whether a diagnostic set holds an Error reported by the engine
HasEngineError(ds) ==
    \E i \in 1..Len(ds) : ds[i].severity = "Error" /\ ds[i].source = "liquidjava"

\* What the last handleDiagnostics call, taken alone, makes of errorDiagnostic
LastCallDecides ==
    IF HasEngineError(routed[2])
    THEN errorDiagnostic # Null /\ errorDiagnostic.file = routed[1]
    ELSE errorDiagnostic = Null

\* C19: after any sequence of handleDiagnostics calls over several documents,
\* errorDiagnostic is what the most recent call alone decides (an error of
\* its document if its set holds an engine Error, null otherwise), and the
\* call leaves status Failed or Passed accordingly, whatever earlier calls
\* for other documents found
C19_LastCallDecides ==
    /\ [](rounds > 0 => LastCallDecides)
    /\ [][(rounds' # rounds \/ routed' # routed) =>
             status' = IF HasEngineError(routed'[2]) THEN "failed" ELSE "passed"]_vars

\* The last call, for B.java, held no engine Error while the call before it
\* had found one in A.java: nothing is active and the status is Passed
C19_Witness ==
    /\ rounds = 2
    /\ prevError # Null /\ prevError.file = "A.java"
    /\ routed[1] = "B.java" /\ ~HasEngineError(routed[2])
    /\ errorDiagnostic = Null /\ status = "passed"

\* The order of the stages of one stopExtension invocation
StageOrder ==
    {<<"idle", "noop">>, <<"idle", "pending">>, <<"idle", "settled">>,
     <<"pending", "settled">>, <<"settled", "kill">>, <<"settled", "killFail">>,
     <<"kill", "done">>, <<"killFail", "threw">>}

\* C20: within one stopExtension invocation the status is set to Stopped
\* first, together with the call of client.stop() and before anything is
\* destroyed or cleared; the invocation waits until its client.stop() has
\* settled; sockets are destroyed and killProcess is called only by an
\* invocation whose client.stop() has settled, in the step that clears
\* client; and each reference is cleared only after its own teardown action
\* was issued
C20_TeardownOrder ==
    [][/\ \A c \in Callers :
            /\ sp'[c] # sp[c] => <<sp[c], sp'[c]>> \in StageOrder
            /\ (sp[c] = "idle" /\ sp'[c] \in {"pending", "settled"}) =>
                  /\ status' = "stopped"
                  /\ client # Null => nClientStop' = nClientStop + 1
                  /\ UNCHANGED <<client, socket, serverProcess, nSocketDestroy, nKillCalls>>
            /\ (sp[c] = "pending" /\ sp'[c] = "settled") => clientState' = "stopped"
       /\ (nSocketDestroy' # nSocketDestroy \/ nKillCalls' # nKillCalls) =>
            \E c \in Callers :
               sp[c] = "settled" /\ sp'[c] \in {"kill", "killFail"} /\ client' = Null
       /\ (client # Null /\ client' = Null) => nClientStop > 0
       /\ (socket # Null /\ socket' = Null) => nSocketDestroy' = nSocketDestroy + 1
       /\ (serverProcess # Null /\ serverProcess' = Null) =>
            nKill > 0 /\ \E c \in Callers : sp[c] = "kill" /\ sp'[c] = "done"]_vars

\* An invocation that waited for client.stop(), destroyed the socket and
\* killed the process has returned
C20_Witness ==
    /\ sp["deactivate"] = "done"
    /\ clientState = "stopped"
    /\ nClientStop > 0 /\ nSocketDestroy = 1 /\ nKill > 0
    /\ client = Null /\ socket = Null /\ serverProcess = Null
    /\ status = "stopped"
====
